---- MODULE Spec2Model ----
(***************************************************************************)
(* A model of github.com/ricochhet/readwrite: the byte matcher and patcher *)
(* (FindBytes, MatchBytes, WriteBytes, PadBytes), the PE layout resolver   *)
(* (ReadCOFFHeaderOffset, ReadDD*, ReadSH*, ReadSectionBytes), the record  *)
(* decoders (ReadImport, ReadThunk, ReadDataDir, ReadEncBlock) and         *)
(* Utf8ToUtf16.                                                            *)
(*                                                                         *)
(* A byte is a number in 0..255, a []byte a sequence of bytes (Go index i  *)
(* is TLA+ index i+1).  Buffers have capacity equal to their length, so a  *)
(* slice expression past the length panics.  A call ends in one of four    *)
(* ways, recorded in ret.kind: "ok" (a value, nil error), "err" (a non-nil *)
(* error returned to the caller), "panic" (a Go run-time panic) or "exit"  *)
(* (log.Fatal: os.Exit(1), the host process is gone).                      *)
(***************************************************************************)
EXTENDS Integers, Sequences, FiniteSets, TLC

VARIABLES image, op, args, ret

vars == <<image, op, args, ret>>

----------------------------------------------------------------------------
(* Bounds of the model. *)

MaxLen == 4
MaxNeedle == 3
MaxStrLen == 4
MaxPrefix == 2
MaxSections == 3
MaxReader == 49
MaxImage == 5

(* The bytes the byte-level calls draw from: the three distinct bytes of *)
(* the PE signature, 'P', 'E' and NUL.                                    *)
Alphabet == {80, 69, 0}

(* Bytes of UTF-8 text: 'a', 'b', and lead/continuation bytes that build   *)
(* U+00E9 (C3 A9), U+00DF (C3 9F), U+1F7DF (F0 9F 9F 9F) and ill-formed    *)
(* sequences.                                                              *)
Utf8Alphabet == {97, 98, 195, 169, 240, 159}

RECURSIVE SeqsOfLen(_, _)
SeqsOfLen(S, n) ==
    IF n = 0 THEN {<<>>}
    ELSE {Append(s, b) : s \in SeqsOfLen(S, n - 1), b \in S}

SeqsUpTo(S, n) == UNION {SeqsOfLen(S, k) : k \in 0..n}

----------------------------------------------------------------------------
(* Results of a call. *)

NoVal == "none"

Ok(v) == [kind |-> "ok", val |-> v, err |-> "nil"]
Err(e, v) == [kind |-> "err", val |-> v, err |-> e]
Panic(e) == [kind |-> "panic", val |-> NoVal, err |-> e]
Exit(e) == [kind |-> "exit", val |-> NoVal, err |-> e]

(* Go's s[lo:hi] on a buffer whose capacity is its length. *)
SliceOk(s, lo, hi) == 0 <= lo /\ lo <= hi /\ hi <= Len(s)
Slice(s, lo, hi) == SubSeq(s, lo + 1, hi)

Zeros(n) == [i \in 1..n |-> 0]

----------------------------------------------------------------------------
(* Fixed-width integers.                                                   *)
(*                                                                         *)
(* A uint32 is the record [hi, lo] of its two 16-bit halves, so that every *)
(* value of the type has a representation and + and - wrap at 2^32 as in   *)
(* Go.  Go's int is 32 or 64 bits wide by platform; the model takes the    *)
(* 32-bit build (GOARCH=386, arm), where MaxInt is 2^31 - 1.               *)

Half == 65536

U32(h, l) == [hi |-> h, lo |-> l]

AddU32(a, b) ==
    LET l == a.lo + b.lo
        h == a.hi + b.hi + (l \div Half)
    IN  U32(h % Half, l % Half)

SubU32(a, b) ==
    LET l == a.lo - b.lo
        borrow == IF l < 0 THEN 1 ELSE 0
        h == a.hi - b.hi - borrow
    IN  U32((h + Half) % Half, (l + Half) % Half)

LtU32(a, b) == a.hi < b.hi \/ (a.hi = b.hi /\ a.lo < b.lo)
GeU32(a, b) == ~LtU32(a, b)

(* binary.LittleEndian.PutUint32 and Uint32. *)
PutUint32(v) ==
    <<v.lo % 256, v.lo \div 256, v.hi % 256, v.hi \div 256>>

Uint32(b) == U32(b[3] + 256 * b[4], b[1] + 256 * b[2])

MaxInt == 2147483647
MinInt == -MaxInt - 1

(* a + b on int for b >= 0, wrapping past MaxInt. *)
AddInt(a, b) ==
    IF a > MaxInt - b THEN MinInt + ((b - 1) - (MaxInt - a)) ELSE a + b

----------------------------------------------------------------------------
(* The byte matcher. *)

(* MatchBytes: "true", "false", or "panic" when src[i] is out of range. *)
RECURSIVE MatchFrom(_, _, _)
MatchFrom(src, dst, i) ==
    IF i >= Len(dst) THEN "true"
    ELSE IF i >= Len(src) THEN "panic"
    ELSE IF src[i + 1] # dst[i + 1] THEN "false"
    ELSE MatchFrom(src, dst, i + 1)

MatchBytes(src, dst) == MatchFrom(src, dst, 0)

(* The loop of FindBytes without its early return: the last matching *)
(* window wins.                                                      *)
LastMatch(src, dst, n) ==
    LET hits == {i \in 0..(n - 1) :
                    MatchBytes(Slice(src, i, i + Len(dst)), dst) = "true"}
    IN  IF hits = {} THEN Err("errNoBytes", -1)
        ELSE Ok(CHOOSE i \in hits : \A j \in hits : i >= j)

(* The loop of FindBytes, for i := range src[:n]: it returns at the first  *)
(* i, in ascending order, whose window matches, and falls through to the   *)
(* error when none does.                                                   *)
FirstMatch(src, dst, n) ==
    LET hits == {i \in 0..(n - 1) :
                    MatchBytes(Slice(src, i, i + Len(dst)), dst) = "true"}
    IN  IF hits = {} THEN Err("errNoBytes", -1)
        ELSE Ok(CHOOSE i \in hits : \A j \in hits : i <= j)

(* FindBytes with the loop bound one short: the last window is not tried. *)
FindBytesOffByOne(src, dst) ==
    LET n == Len(src) - Len(dst) IN
    IF ~SliceOk(src, 0, n) THEN Panic("slice bounds out of range")
    ELSE FirstMatch(src, dst, n)

FindBytes(src, dst) ==
    LET n == Len(src) - Len(dst) + 1 IN
    IF ~SliceOk(src, 0, n) THEN Panic("slice bounds out of range")
    ELSE FirstMatch(src, dst, n)

----------------------------------------------------------------------------
(* The byte patcher. *)

(* PadBytes with one zero byte too few. *)
PadBytesShort(bytes, size) ==
    IF Len(bytes) < size THEN bytes \o Zeros(size - Len(bytes) - 1) ELSE bytes

PadBytes(bytes, size) ==
    IF Len(bytes) < size THEN bytes \o Zeros(size - Len(bytes)) ELSE bytes

(* WriteBytes: the result and the buffer after the call.  copy(dst, src) *)
(* copies min(len(dst), len(src)) bytes.                                  *)
Copy(bytes, offset, replace) ==
    LET n == IF Len(bytes) - offset < Len(replace)
             THEN Len(bytes) - offset ELSE Len(replace)
    IN  [i \in 1..Len(bytes) |->
            IF offset < i /\ i <= offset + n THEN replace[i - offset] ELSE bytes[i]]

WriteBytes(bytes, offset, replace) ==
    IF offset < 0 \/ AddInt(offset, Len(replace)) > Len(bytes)
    THEN [ret |-> Err("errInvalidOffsetOrByteRange", NoVal), bytes |-> bytes]
    ELSE IF ~SliceOk(bytes, offset, Len(bytes))
    THEN [ret |-> Panic("slice bounds out of range"), bytes |-> bytes]
    ELSE [ret |-> Ok(NoVal), bytes |-> Copy(bytes, offset, replace)]

----------------------------------------------------------------------------
(* The PE layout resolver. *)

COFFStartBytes == <<80, 69, 0, 0>>
COFFStartBytesLen == 4
COFFHeaderSize == 20

(* binary.Size(OptionalHeader64X110{}): the sum of the widths of its fields, *)
(* in declaration order.                                                     *)
OH64ByteSize ==
    1 + 1 + 4 + 4 + 4 + 4 + 4 + 8 + 4 + 4 + 2 + 2 + 2 + 2 + 2 + 2
      + 4 + 4 + 4 + 4 + 2 + 2 + 8 + 8 + 8 + 8 + 4 + 4

DataDirSize == 128
DataDirEntrySize == 8
SH32EntrySize == 64

ReadCOFFHeaderOffset(bytes) ==
    LET r == FindBytes(bytes, COFFStartBytes) IN
    IF r.kind = "err" THEN Err(r.err, -1) ELSE r

DDStart(offset) == offset + COFFStartBytesLen + COFFHeaderSize + OH64ByteSize

ReadDDBytes(bytes) ==
    LET r == ReadCOFFHeaderOffset(bytes) IN
    IF r.kind # "ok" THEN (IF r.kind = "err" THEN Err(r.err, NoVal) ELSE r)
    ELSE IF ~SliceOk(bytes, DDStart(r.val), DDStart(r.val) + DataDirSize)
    THEN Panic("slice bounds out of range")
    ELSE Ok(Slice(bytes, DDStart(r.val), DDStart(r.val) + DataDirSize))

(* ReadDDEntryOffset taking the signature to be at the start of the image. *)
ReadDDEntryOffsetFromZero(bytes, entryVirtualAddress, entrySize) ==
    LET dataDir == ReadDDBytes(bytes) IN
    IF dataDir.kind # "ok"
    THEN (IF dataDir.kind = "err" THEN Err(dataDir.err, -1) ELSE dataDir)
    ELSE LET entryBytes == PutUint32(entryVirtualAddress) \o PutUint32(entrySize)
             rva == FindBytes(dataDir.val, entryBytes)
         IN  IF rva.kind = "panic" THEN rva
             ELSE IF rva.kind = "err" \/ rva.val = -1 THEN Exit(rva.err)
             ELSE Ok(DDStart(0) + rva.val)

ReadDDEntryOffset(bytes, entryVirtualAddress, entrySize) ==
    LET dataDir == ReadDDBytes(bytes) IN
    IF dataDir.kind # "ok"
    THEN (IF dataDir.kind = "err" THEN Err(dataDir.err, -1) ELSE dataDir)
    ELSE LET entryBytes == PutUint32(entryVirtualAddress) \o PutUint32(entrySize)
             rva == FindBytes(dataDir.val, entryBytes)
         IN  IF rva.kind = "panic" THEN rva
             ELSE IF rva.kind = "err" \/ rva.val = -1 THEN Exit(rva.err)
             ELSE LET offset == ReadCOFFHeaderOffset(bytes) IN
                  IF offset.kind # "ok" THEN offset
                  ELSE Ok(DDStart(offset.val) + rva.val)

(* ReadSHSize with the 40-byte stride of a PE section header. *)
ReadSHSizeStride40(sections) ==
    LET size == Len(sections) * 40 IN
    IF size = 0 THEN Err("errSectionHeaderIsSizeZero", -1) ELSE Ok(size)

ReadSHSize(sections) ==
    LET size == Len(sections) * SH32EntrySize IN
    IF size = 0 THEN Err("errSectionHeaderIsSizeZero", -1) ELSE Ok(size)

ReadSHEntryOffset(bytes, address) ==
    LET offset == ReadCOFFHeaderOffset(bytes) IN
    IF offset.kind # "ok" THEN offset
    ELSE Ok(DDStart(offset.val) + DataDirSize + address)

(* A uint32 used as a slice index: it converts to int when it is at most *)
(* MaxInt, and a larger index is out of range of any buffer.              *)
FitsInt(u) == u.hi < Half \div 2
ToInt(u) == u.hi * Half + u.lo

SliceOkU32(s, lo, hi) ==
    FitsInt(lo) /\ FitsInt(hi) /\ SliceOk(s, ToInt(lo), ToInt(hi))

Contains(s, va) ==
    GeU32(va, s.VirtualAddress) /\ LtU32(va, AddU32(s.VirtualAddress, s.Size))

(* The loop of ReadSectionBytes: the index (from 1) of the first section *)
(* that contains the address, 0 when there is none.                      *)
RECURSIVE FirstSection(_, _, _)
FirstSection(sections, va, i) ==
    IF i > Len(sections) THEN 0
    ELSE IF Contains(sections[i], va) THEN i
    ELSE FirstSection(sections, va, i + 1)

ReadSectionBytes(bytes, sections, sectionVirtualAddress, sectionSize) ==
    LET k == FirstSection(sections, sectionVirtualAddress, 1) IN
    IF k = 0 THEN Err("errSectionIsNil", NoVal)
    ELSE LET section == sections[k]
             offset == AddU32(SubU32(sectionVirtualAddress, section.VirtualAddress),
                              section.Offset)
             end == AddU32(offset, sectionSize)
         IN  IF ~SliceOkU32(bytes, offset, end)
             THEN Panic("slice bounds out of range")
             ELSE Ok(Slice(bytes, ToInt(offset), ToInt(end)))

----------------------------------------------------------------------------
(* The record decoders.  A record type is the sequence of the byte widths *)
(* of its fields; a reader is [data, pos].                                *)

ImportFields == <<4, 4, 4, 4, 4>>
ThunkFields == <<4, 4>>
DataDirFields == <<4, 4>>
EncBlockFields == <<4, 4, 4, 4, 4, 4, 4, 4, 4, 8, 4>>

RECURSIVE SumSeq(_)
SumSeq(w) == IF w = <<>> THEN 0 ELSE Head(w) + SumSeq(Tail(w))

(* binary.Size of a record. *)
BinarySize(fields) == SumSeq(fields)

(* A little-endian field: a uint32, or a uint64 as its two uint32 halves. *)
DecodeField(b) ==
    IF Len(b) = 4 THEN Uint32(b)
    ELSE [hi |-> Uint32(SubSeq(b, 5, 8)), lo |-> Uint32(SubSeq(b, 1, 4))]

RECURSIVE DecodeFields(_, _)
DecodeFields(buf, fields) ==
    IF fields = <<>> THEN <<>>
    ELSE <<DecodeField(SubSeq(buf, 1, Head(fields)))>>
            \o DecodeFields(SubSeq(buf, Head(fields) + 1, Len(buf)), Tail(fields))

ZeroField(w) == IF w = 4 THEN U32(0, 0) ELSE [hi |-> U32(0, 0), lo |-> U32(0, 0)]
ZeroRecord(fields) == [i \in 1..Len(fields) |-> ZeroField(fields[i])]

(* A read that leaves a short reader where it was. *)
ReadFullPeek(reader, n) ==
    LET avail == Len(reader.data) - reader.pos IN
    IF avail >= n
    THEN [err |-> "nil", pos |-> reader.pos + n,
          buf |-> Slice(reader.data, reader.pos, reader.pos + n)]
    ELSE [err |-> "ErrUnexpectedEOF", pos |-> reader.pos, buf |-> <<>>]

(* io.ReadFull(reader, buf) with len(buf) = n: the reader hands out the   *)
(* bytes it has left, up to n; short of n it has consumed them all and    *)
(* the error is io.EOF (none read) or io.ErrUnexpectedEOF.                *)
ReadFull(reader, n) ==
    LET avail == Len(reader.data) - reader.pos IN
    IF avail >= n
    THEN [err |-> "nil", pos |-> reader.pos + n,
          buf |-> Slice(reader.data, reader.pos, reader.pos + n)]
    ELSE IF avail <= 0
    THEN [err |-> "EOF", pos |-> reader.pos, buf |-> <<>>]
    ELSE [err |-> "ErrUnexpectedEOF", pos |-> Len(reader.data), buf |-> <<>>]

(* binary.Read(reader, binary.LittleEndian, &record): the record and the *)
(* reader's position after the call.                                     *)
BinaryRead(reader, fields) ==
    LET r == ReadFull(reader, BinarySize(fields)) IN
    IF r.err # "nil"
    THEN Err(r.err, [data |-> ZeroRecord(fields), pos |-> r.pos])
    ELSE Ok([data |-> DecodeFields(r.buf, fields), pos |-> r.pos])

ReadImport(reader) == BinaryRead(reader, ImportFields)
ReadThunk(reader) == BinaryRead(reader, ThunkFields)
ReadDataDir(reader) == BinaryRead(reader, DataDirFields)
ReadEncBlock(reader) == BinaryRead(reader, EncBlockFields)

----------------------------------------------------------------------------
(* Utf8ToUtf16. *)

IsCont(b) == 128 <= b /\ b <= 191

(* utf8.DecodeRune on b at index i (from 1): the rune and its size; an *)
(* ill-formed sequence is U+FFFD of size 1.                            *)
RuneError == 65533

DecodeRune(b, i) ==
    LET n == Len(b) - i + 1
        b0 == b[i]
        bad == [rune |-> RuneError, size |-> 1]
        size == IF b0 < 128 THEN 1
                ELSE IF 194 <= b0 /\ b0 <= 223 THEN 2
                ELSE IF 224 <= b0 /\ b0 <= 239 THEN 3
                ELSE IF 240 <= b0 /\ b0 <= 244 THEN 4
                ELSE 0
        lo == IF b0 = 224 THEN 160 ELSE IF b0 = 240 THEN 144 ELSE 128
        hi == IF b0 = 237 THEN 159 ELSE IF b0 = 244 THEN 143 ELSE 191
    IN  IF size = 0 THEN bad
        ELSE IF size = 1 THEN [rune |-> b0, size |-> 1]
        ELSE IF n < size THEN bad
        ELSE IF b[i + 1] < lo \/ hi < b[i + 1] THEN bad
        ELSE IF size = 2
        THEN [rune |-> (b0 % 32) * 64 + (b[i + 1] % 64), size |-> 2]
        ELSE IF ~IsCont(b[i + 2]) THEN bad
        ELSE IF size = 3
        THEN [rune |-> (b0 % 16) * 4096 + (b[i + 1] % 64) * 64 + (b[i + 2] % 64),
              size |-> 3]
        ELSE IF ~IsCont(b[i + 3]) THEN bad
        ELSE [rune |-> (b0 % 8) * 262144 + (b[i + 1] % 64) * 4096
                          + (b[i + 2] % 64) * 64 + (b[i + 3] % 64),
              size |-> 4]

(* []rune(string(utf8Bytes)) *)
RECURSIVE Runes(_, _)
Runes(b, i) ==
    IF i > Len(b) THEN <<>>
    ELSE LET d == DecodeRune(b, i) IN <<d.rune>> \o Runes(b, i + d.size)

(* utf16.Encode: one code unit per rune of the basic plane, a surrogate *)
(* pair per rune above it.                                              *)
RECURSIVE Utf16Encode(_)
Utf16Encode(runes) ==
    IF runes = <<>> THEN <<>>
    ELSE LET r == Head(runes) IN
         (IF r < 55296 \/ (57344 <= r /\ r < 65536) THEN <<r>>
          ELSE IF 65536 <= r /\ r <= 1114111
          THEN <<55296 + ((r - 65536) \div 1024), 56320 + ((r - 65536) % 1024)>>
          ELSE <<RuneError>>)
         \o Utf16Encode(Tail(runes))

Utf16Bytes(units, swap) ==
    [j \in 1..(2 * Len(units)) |->
        LET u == units[(j + 1) \div 2] IN
        IF (j % 2 = 1) # swap THEN u % 256 ELSE (u \div 256) % 256]

(* Utf8ToUtf16 with the two bytes of each code unit in the other order. *)
Utf8ToUtf16BigEndian(utf8str) == Utf16Bytes(Utf16Encode(Runes(utf8str, 1)), TRUE)

Utf8ToUtf16(utf8str) == Utf16Bytes(Utf16Encode(Runes(utf8str, 1)), FALSE)

----------------------------------------------------------------------------
(* Inputs of the calls. *)

FindBytesArgs ==
    {[src |-> src, dst |-> dst] :
        src \in SeqsUpTo(Alphabet, MaxLen),
        dst \in SeqsUpTo(Alphabet, MaxNeedle) \cup {COFFStartBytes}}

MatchBytesArgs ==
    {[src |-> src, dst |-> dst] :
        src \in SeqsUpTo(Alphabet, MaxNeedle), dst \in SeqsUpTo(Alphabet, MaxNeedle)}

PadBytesArgs ==
    {[bytes |-> bytes, size |-> size] :
        bytes \in SeqsUpTo(Alphabet, MaxNeedle), size \in -1..(MaxLen + 1)}

Utf8ToUtf16Args == {[utf8str |-> b] : b \in SeqsUpTo(Utf8Alphabet, MaxStrLen)}

(* Synthetic PE images: a prefix, the signature, a zeroed COFF header and   *)
(* optional header, a data-directory table of 16 entries that is zero but   *)
(* for two adjacent entries, and then one byte more, nothing, or the table  *)
(* cut one byte short.  Images without a signature stand beside them.       *)
DDEntries ==
    {<<U32(0, 0), U32(0, 0)>>,
     <<U32(0, 4096), U32(0, 32)>>,        \* (0x1000, 0x20)
     <<U32(0, 8192), U32(0, 64)>>,        \* (0x2000, 0x40)
     <<U32(8192, 0), U32(0, 64)>>,        \* (0x20000000, 0x40)
     <<U32(0, 0), U32(8192, 0)>>,         \* (0, 0x20000000)
     <<U32(0, 64), U32(0, 0)>>}           \* (0x40, 0)

EntryBytes(e) == PutUint32(e[1]) \o PutUint32(e[2])

DDTable(i, e1, e2) ==
    Zeros(DataDirEntrySize * i) \o EntryBytes(e1) \o EntryBytes(e2)
        \o Zeros(DataDirSize - DataDirEntrySize * (i + 2))

DDTables == {DDTable(i, e1, e2) : i \in {0, 5, 14}, e1 \in DDEntries, e2 \in DDEntries}

PEImage(prefix, table, extra) ==
    LET full == prefix \o COFFStartBytes \o Zeros(COFFHeaderSize)
                    \o Zeros(OH64ByteSize) \o table
    IN  IF extra < 0 THEN SubSeq(full, 1, Len(full) - 1)
        ELSE full \o Zeros(extra)

PEImages ==
    {PEImage(prefix, table, extra) :
        prefix \in SeqsUpTo({80}, MaxPrefix), table \in DDTables, extra \in -1..1}
    \cup SeqsUpTo({80}, MaxPrefix) \cup {Zeros(3), Zeros(8)}

ReadDDEntryOffsetArgs ==
    {[bytes |-> b, entryVirtualAddress |-> e[1], entrySize |-> e[2]] :
        b \in PEImages, e \in DDEntries}

(* Section tables: sections that overlap, an empty one, one whose range *)
(* runs past 2^32 and one whose file offset is the largest uint32.      *)
SectionSet ==
    {[VirtualAddress |-> U32(0, 16), Size |-> U32(0, 8), Offset |-> U32(0, 2)],
     [VirtualAddress |-> U32(0, 20), Size |-> U32(0, 8), Offset |-> U32(0, 0)],
     [VirtualAddress |-> U32(0, 16), Size |-> U32(0, 0), Offset |-> U32(0, 0)],
     [VirtualAddress |-> U32(65535, 65528), Size |-> U32(0, 16), Offset |-> U32(0, 0)],
     [VirtualAddress |-> U32(0, 32), Size |-> U32(0, 4), Offset |-> U32(65535, 65535)]}

SectionTables == SeqsUpTo(SectionSet, MaxSections)

Ramp(n) == [i \in 1..n |-> i - 1]

ReadSectionBytesArgs ==
    {[bytes |-> Ramp(12), sections |-> t, sectionVirtualAddress |-> va, sectionSize |-> sz] :
        t \in SectionTables,
        va \in {U32(0, 15), U32(0, 16), U32(0, 21), U32(0, 24), U32(0, 27), U32(0, 28),
                U32(0, 33), U32(65535, 65532), U32(0, 4)},
        sz \in {U32(0, 0), U32(0, 2), U32(0, 9)}}

ReadSHSizeArgs == {[sections |-> t] : t \in SectionTables}

(* Readers: a stream of n bytes read up to position pos. *)
Readers ==
    {[data |-> [i \in 1..n |-> (7 * i) % 256], pos |-> p] :
        n \in 0..MaxReader, p \in 0..MaxReader} 

DecoderArgs ==
    {[reader |-> r] : r \in {x \in Readers : x.pos <= Len(x.data)}}

----------------------------------------------------------------------------
(* Calls of the pure helpers: the initial state holds the call and its   *)
(* arguments, the action applies the function.                            *)

Pending == [kind |-> "pending", val |-> NoVal, err |-> "nil"]

CallFindBytes ==
    /\ op = "FindBytes" /\ ret = Pending
    /\ ret' = FindBytes(args.src, args.dst)
    /\ UNCHANGED <<image, op, args>>

CallMatchBytes ==
    /\ op = "MatchBytes" /\ ret = Pending
    /\ ret' = LET m == MatchBytes(args.src, args.dst) IN
              IF m = "panic" THEN Panic("index out of range") ELSE Ok(m)
    /\ UNCHANGED <<image, op, args>>

CallPadBytes ==
    /\ op = "PadBytes" /\ ret = Pending
    /\ ret' = Ok(PadBytes(args.bytes, args.size))
    /\ UNCHANGED <<image, op, args>>

CallUtf8ToUtf16 ==
    /\ op = "Utf8ToUtf16" /\ ret = Pending
    /\ ret' = Ok(Utf8ToUtf16(args.utf8str))
    /\ UNCHANGED <<image, op, args>>

CallReadCOFFHeaderOffset ==
    /\ op = "ReadCOFFHeaderOffset" /\ ret = Pending
    /\ ret' = ReadCOFFHeaderOffset(args.bytes)
    /\ UNCHANGED <<image, op, args>>

CallReadDDBytes ==
    /\ op = "ReadDDBytes" /\ ret = Pending
    /\ ret' = ReadDDBytes(args.bytes)
    /\ UNCHANGED <<image, op, args>>

CallReadDDEntryOffset ==
    /\ op = "ReadDDEntryOffset" /\ ret = Pending
    /\ ret' = ReadDDEntryOffset(args.bytes, args.entryVirtualAddress, args.entrySize)
    /\ UNCHANGED <<image, op, args>>

CallReadSHSize ==
    /\ op = "ReadSHSize" /\ ret = Pending
    /\ ret' = ReadSHSize(args.sections)
    /\ UNCHANGED <<image, op, args>>

CallReadSectionBytes ==
    /\ op = "ReadSectionBytes" /\ ret = Pending
    /\ ret' = ReadSectionBytes(args.bytes, args.sections,
                               args.sectionVirtualAddress, args.sectionSize)
    /\ UNCHANGED <<image, op, args>>

CallReadImport ==
    /\ op = "ReadImport" /\ ret = Pending
    /\ ret' = ReadImport(args.reader)
    /\ UNCHANGED <<image, op, args>>

CallReadThunk ==
    /\ op = "ReadThunk" /\ ret = Pending
    /\ ret' = ReadThunk(args.reader)
    /\ UNCHANGED <<image, op, args>>

CallReadDataDir ==
    /\ op = "ReadDataDir" /\ ret = Pending
    /\ ret' = ReadDataDir(args.reader)
    /\ UNCHANGED <<image, op, args>>

CallReadEncBlock ==
    /\ op = "ReadEncBlock" /\ ret = Pending
    /\ ret' = ReadEncBlock(args.reader)
    /\ UNCHANGED <<image, op, args>>

InitPure ==
    /\ image = <<>>
    /\ ret = Pending
    /\ \/ op = "FindBytes" /\ args \in FindBytesArgs
       \/ op = "MatchBytes" /\ args \in MatchBytesArgs
       \/ op = "PadBytes" /\ args \in PadBytesArgs
       \/ op = "Utf8ToUtf16" /\ args \in Utf8ToUtf16Args
       \/ op \in {"ReadCOFFHeaderOffset", "ReadDDBytes"}
            /\ args \in {[bytes |-> b] : b \in PEImages}
       \/ op = "ReadDDEntryOffset" /\ args \in ReadDDEntryOffsetArgs
       \/ op = "ReadSHSize" /\ args \in ReadSHSizeArgs
       \/ op = "ReadSectionBytes" /\ args \in ReadSectionBytesArgs
       \/ op \in {"ReadImport", "ReadThunk", "ReadDataDir", "ReadEncBlock"}
            /\ args \in DecoderArgs

NextPure ==
    \/ CallFindBytes
    \/ CallMatchBytes
    \/ CallPadBytes
    \/ CallUtf8ToUtf16
    \/ CallReadCOFFHeaderOffset
    \/ CallReadDDBytes
    \/ CallReadDDEntryOffset
    \/ CallReadSHSize
    \/ CallReadSectionBytes
    \/ CallReadImport
    \/ CallReadThunk
    \/ CallReadDataDir
    \/ CallReadEncBlock

SpecPure == InitPure /\ [][NextPure]_vars

----------------------------------------------------------------------------
(* A caller that patches one image and resolves offsets in it, call after *)
(* call.  A panic ends the program.                                        *)

Running == ret.kind \notin {"panic", "exit"}

Offsets == -1..(MaxImage + 1) \cup {MaxInt - 1, MaxInt}

Replacements == SeqsUpTo(Alphabet, 1) \cup {COFFStartBytes}

DoWriteBytes ==
    /\ Running
    /\ \E offset \in Offsets, replace \in Replacements :
          LET r == WriteBytes(image, offset, replace) IN
          /\ image' = r.bytes
          /\ op' = "WriteBytes"
          /\ args' = [bytes |-> image, offset |-> offset, replace |-> replace]
          /\ ret' = r.ret

DoReadCOFFHeaderOffset ==
    /\ Running
    /\ op' = "ReadCOFFHeaderOffset"
    /\ args' = [bytes |-> image]
    /\ ret' = ReadCOFFHeaderOffset(image)
    /\ UNCHANGED image

DoReadSHEntryOffset ==
    /\ Running
    /\ \E address \in {0, SH32EntrySize} :
          /\ op' = "ReadSHEntryOffset"
          /\ args' = [bytes |-> image, address |-> address]
          /\ ret' = ReadSHEntryOffset(image, address)
    /\ UNCHANGED image

Init ==
    /\ image \in SeqsUpTo(Alphabet, MaxImage)
    /\ op = "none"
    /\ args = [bytes |-> image]
    /\ ret = Ok(NoVal)

Next == DoWriteBytes \/ DoReadCOFFHeaderOffset \/ DoReadSHEntryOffset

Spec == Init /\ [][Next]_vars

----------------------------------------------------------------------------
(* The claims. *)

Done(name) == op = name /\ ret # Pending

(* needle occurs in hay at Go index i *)
OccursAt(hay, needle, i) ==
    /\ 0 <= i /\ i + Len(needle) <= Len(hay)
    /\ \A k \in 1..Len(needle) : hay[i + k] = needle[k]

Occurrences(hay, needle) ==
    {i \in 0..Len(hay) : OccursAt(hay, needle, i)}

Lowest(S) == CHOOSE x \in S : \A y \in S : x <= y

(* C1: for a needle of length 1..len(haystack), FindBytes returns the     *)
(* lowest index at which the needle occurs in the haystack, overlapping   *)
(* occurrences included, and the not-found error with index -1 exactly    *)
(* when it occurs nowhere.                                                *)
C1_FindBytesLowestIndex ==
    (Done("FindBytes") /\ 1 <= Len(args.dst) /\ Len(args.dst) <= Len(args.src)) =>
        LET occ == Occurrences(args.src, args.dst) IN
        IF occ = {}
        THEN ret.kind = "err" /\ ret.err = "errNoBytes" /\ ret.val = -1
        ELSE ret.kind = "ok" /\ ret.val = Lowest(occ)

(* a needle that occurs twice, the occurrences overlapping, the first not *)
(* at index 0                                                             *)
C1_Witness ==
    /\ Done("FindBytes") /\ ret.kind = "ok" /\ ret.val > 0
    /\ \E j \in Occurrences(args.src, args.dst) :
          ret.val < j /\ j < ret.val + Len(args.dst)

(* C2: for a needle longer than the haystack, the empty haystack        *)
(* included, FindBytes returns the not-found error as an ordinary result, *)
(* and so does the signature search of ReadCOFFHeaderOffset in an image   *)
(* shorter than the four bytes of the signature.                          *)
C2_LongNeedleNotFound ==
    /\ (Done("FindBytes") /\ Len(args.dst) > Len(args.src)) =>
          ret.kind = "err" /\ ret.err = "errNoBytes"
    /\ (Done("ReadCOFFHeaderOffset") /\ Len(args.bytes) < 4) =>
          ret.kind = "err" /\ ret.err = "errNoBytes"

(* C3: WriteBytes is all-or-nothing.  With offset < 0 or offset plus the *)
(* replacement's length beyond the image's length it returns the         *)
(* out-of-range error and the image is unchanged; otherwise it succeeds, *)
(* the replacement stands at the offset, every other byte is unchanged   *)
(* and so is the length.                                                 *)
C3_WriteBytesAllOrNothing ==
    op = "WriteBytes" =>
        LET b == args.bytes
            o == args.offset
            r == args.replace
        IN  IF o < 0 \/ o > Len(b) - Len(r)
            THEN ret.kind = "err" /\ ret.err = "errInvalidOffsetOrByteRange" /\ image = b
            ELSE /\ ret.kind = "ok"
                 /\ Len(image) = Len(b)
                 /\ \A i \in 1..Len(b) :
                       image[i] = IF o < i /\ i <= o + Len(r) THEN r[i - o] ELSE b[i]

(* C4: in a buffer whose lowest PE signature is at c and whose           *)
(* data-directory table, the 128 bytes at c + 4 + 20 + OH64ByteSize,     *)
(* holds the little-endian pair (virtualAddress, size) first at table    *)
(* offset m, ReadDDEntryOffset returns c + 4 + 20 + OH64ByteSize + m,    *)
(* and the eight bytes of the buffer there decode to the pair.           *)
SignatureAt(b) == Occurrences(b, COFFStartBytes)

TableOf(b, c) == SubSeq(b, c + 4 + 20 + OH64ByteSize + 1, c + 4 + 20 + OH64ByteSize + 128)

HasTable(b) ==
    /\ SignatureAt(b) # {}
    /\ Lowest(SignatureAt(b)) + 4 + 20 + OH64ByteSize + 128 <= Len(b)

PairAt(b) ==
    Occurrences(TableOf(b, Lowest(SignatureAt(b))),
                PutUint32(args.entryVirtualAddress) \o PutUint32(args.entrySize))

C4_ReadDDEntryOffset ==
    (Done("ReadDDEntryOffset") /\ HasTable(args.bytes) /\ PairAt(args.bytes) # {}) =>
        LET c == Lowest(SignatureAt(args.bytes))
            m == Lowest(PairAt(args.bytes))
        IN  /\ ret.kind = "ok"
            /\ ret.val = c + 4 + 20 + OH64ByteSize + m
            /\ Uint32(SubSeq(args.bytes, ret.val + 1, ret.val + 4))
                  = args.entryVirtualAddress
            /\ Uint32(SubSeq(args.bytes, ret.val + 5, ret.val + 8)) = args.entrySize

(* the pair (0x2000, 0x40) at table offset 40, behind a signature that is *)
(* not at the start of the buffer                                         *)
C4_Witness ==
    /\ Done("ReadDDEntryOffset") /\ ret.kind = "ok"
    /\ args.entryVirtualAddress = U32(0, 8192) /\ args.entrySize = U32(0, 64)
    /\ Lowest(SignatureAt(args.bytes)) > 0
    /\ Lowest(PairAt(args.bytes)) = 40
    /\ ret.val = Lowest(SignatureAt(args.bytes)) + 4 + 20 + OH64ByteSize + 40

(* C5: when the pair's eight bytes are nowhere in the data-directory    *)
(* table, ReadDDEntryOffset returns an error to its caller; the host    *)
(* process is not terminated.                                           *)
C5_EntryNotFoundReturned ==
    (Done("ReadDDEntryOffset") /\ HasTable(args.bytes) /\ PairAt(args.bytes) = {}) =>
        ret.kind = "err"

(* C6: decoding a record from a reader with fewer bytes left than the   *)
(* record's width (Import 20, Thunk 8, DataDir 8, EncBlock 48) fails    *)
(* with an error and leaves the reader's position where it was.         *)
Decoders == {"ReadImport", "ReadThunk", "ReadDataDir", "ReadEncBlock"}

Width(name) ==
    CASE name = "ReadImport" -> 20
      [] name = "ReadThunk" -> 8
      [] name = "ReadDataDir" -> 8
      [] name = "ReadEncBlock" -> 48

Remaining(reader) == Len(reader.data) - reader.pos

Truncated ==
    op \in Decoders /\ ret # Pending /\ Remaining(args.reader) < Width(op)

C6_TruncatedConsumesNothing ==
    Truncated => ret.kind = "err" /\ ret.val.pos = args.reader.pos

(* C6, amended: the decode fails with an error, io.EOF when no byte was  *)
(* left and io.ErrUnexpectedEOF otherwise, and the reader has consumed   *)
(* every byte it had left: its position is the end of its data, which is *)
(* its position before the call only when no byte was left.              *)
C6_TruncatedConsumesRest ==
    Truncated =>
        /\ ret.kind = "err"
        /\ ret.err = IF Remaining(args.reader) = 0 THEN "EOF" ELSE "ErrUnexpectedEOF"
        /\ ret.val.pos = Len(args.reader.data)
        /\ ret.val.pos = args.reader.pos <=> Remaining(args.reader) = 0

(* an EncBlock one byte short of its 48 *)
C6_Witness ==
    /\ op = "ReadEncBlock" /\ ret.kind = "err"
    /\ Remaining(args.reader) = 47
    /\ ret.val.pos = args.reader.pos + 47

(* C7: ReadSectionBytes takes the first section, in declaration order,   *)
(* whose range [VirtualAddress, VirtualAddress + Size) contains the      *)
(* address, and returns the requested number of bytes of the image from  *)
(* address - VirtualAddress + Offset; it fails with section-not-found    *)
(* exactly when no section's range contains the address.  The range is   *)
(* that of the numbers: address - VirtualAddress, which does not wrap    *)
(* for address >= VirtualAddress, is less than Size.                     *)
InRange(s, va) ==
    GeU32(va, s.VirtualAddress) /\ LtU32(SubU32(va, s.VirtualAddress), s.Size)

C7_ReadSectionBytes ==
    Done("ReadSectionBytes") =>
        LET va == args.sectionVirtualAddress
            hits == {k \in 1..Len(args.sections) : InRange(args.sections[k], va)}
        IN  /\ (ret.kind = "err" /\ ret.err = "errSectionIsNil") <=> hits = {}
            /\ hits # {} =>
                  LET s == args.sections[Lowest(hits)]
                      d == SubU32(va, s.VirtualAddress)
                      from == d.lo + s.Offset.lo
                      to == from + args.sectionSize.lo
                  IN  (d.hi = 0 /\ s.Offset.hi = 0 /\ args.sectionSize.hi = 0
                          /\ to <= Len(args.bytes)) =>
                      ret = Ok(SubSeq(args.bytes, from + 1, to))

(* C8: PadBytes returns its input unchanged for a size at most its length, *)
(* and for a larger size the input followed by zero bytes up to exactly    *)
(* that size.                                                              *)
C8_PadBytes ==
    Done("PadBytes") =>
        /\ ret.kind = "ok"
        /\ args.size <= Len(args.bytes) => ret.val = args.bytes
        /\ args.size > Len(args.bytes) =>
              /\ Len(ret.val) = args.size
              /\ \A i \in 1..Len(args.bytes) : ret.val[i] = args.bytes[i]
              /\ \A i \in (Len(args.bytes) + 1)..args.size : ret.val[i] = 0

(* a non-empty input with a non-zero last byte, padded by two or more *)
C8_Witness ==
    /\ Done("PadBytes") /\ Len(args.bytes) > 0
    /\ args.bytes[Len(args.bytes)] # 0
    /\ args.size >= Len(args.bytes) + 2
    /\ Len(ret.val) = args.size

(* C9: ReadSHSize returns 64 times the number of sections when there is at *)
(* least one (192 for three), and the empty-header error when there is     *)
(* none.                                                                   *)
C9_ReadSHSize ==
    Done("ReadSHSize") =>
        /\ Len(args.sections) >= 1 =>
              ret.kind = "ok" /\ ret.val = Len(args.sections) * 64
        /\ Len(args.sections) = 3 => ret.val = 192
        /\ Len(args.sections) = 0 =>
              ret.kind = "err" /\ ret.err = "errSectionHeaderIsSizeZero"

C9_Witness == Done("ReadSHSize") /\ Len(args.sections) = 3 /\ ret.kind = "ok"

(* C10: for a string of ASCII characters Utf8ToUtf16 returns twice as many *)
(* bytes, byte 2i the i-th character's code and byte 2i+1 zero.            *)
IsAscii(b) == \A i \in 1..Len(b) : b[i] < 128

C10_Utf8ToUtf16Ascii ==
    (Done("Utf8ToUtf16") /\ IsAscii(args.utf8str)) =>
        /\ Len(ret.val) = 2 * Len(args.utf8str)
        /\ \A i \in 0..(Len(args.utf8str) - 1) :
              /\ ret.val[2 * i + 1] = args.utf8str[i + 1]
              /\ ret.val[2 * i + 2] = 0

(* an ASCII string of three characters, not all the same *)
C10_Witness ==
    /\ Done("Utf8ToUtf16") /\ IsAscii(args.utf8str)
    /\ Len(args.utf8str) = 3 /\ args.utf8str[1] # args.utf8str[3]
    /\ Len(ret.val) = 6

(* C11: no COFF offset is kept from one call to the next.  After any     *)
(* sequence of WriteBytes calls, ReadCOFFHeaderOffset returns the lowest  *)
(* index of the PE signature in the image as it now stands, or the        *)
(* not-found error when it now holds none, and ReadSHEntryOffset returns  *)
(* that index + 4 + 20 + OH64ByteSize + 128 + address.                    *)
C11_OffsetOfCurrentImage ==
    /\ op = "ReadCOFFHeaderOffset" =>
          IF SignatureAt(image) = {}
          THEN ret.kind = "err" /\ ret.err = "errNoBytes"
          ELSE ret = Ok(Lowest(SignatureAt(image)))
    /\ op = "ReadSHEntryOffset" =>
          IF SignatureAt(image) = {}
          THEN ret.kind = "err" /\ ret.err = "errNoBytes"
          ELSE ret = Ok(Lowest(SignatureAt(image)) + 4 + 20 + OH64ByteSize + 128
                            + args.address)

(* C12: ReadDDEntryOffset matches directory entries in table order.     *)
(* Whenever it succeeds, the returned offset is the start of the lowest  *)
(* entry k in 0..15 of the data-directory table whose (virtual address,  *)
(* size) pair is the query: the offset less the table's start is 8 * k.  *)
Succeeded == Done("ReadDDEntryOffset") /\ ret.kind = "ok"

TableStart(b) == Lowest(SignatureAt(b)) + 4 + 20 + OH64ByteSize

(* the pair that the eight bytes at byte offset m of the table decode to *)
PairAtOffset(table, m) ==
    <<Uint32(SubSeq(table, m + 1, m + 4)), Uint32(SubSeq(table, m + 5, m + 8))>>

Query == <<args.entryVirtualAddress, args.entrySize>>

MatchingEntries(b) ==
    {k \in 0..15 : PairAtOffset(TableOf(b, Lowest(SignatureAt(b))), 8 * k) = Query}

C12_LowestEntry ==
    Succeeded =>
        /\ MatchingEntries(args.bytes) # {}
        /\ ret.val - TableStart(args.bytes) = 8 * Lowest(MatchingEntries(args.bytes))

(* C12, amended: whenever it succeeds, the returned offset less the     *)
(* table's start is the lowest byte offset m in 0..120 at which eight   *)
(* bytes of the table are the query's pair, aligned to an entry or not. *)
(* It is never beyond an entry that holds the pair, and when it is a    *)
(* multiple of 8 it is the start of the lowest such entry.              *)
C12_LowestByteOffset ==
    Succeeded =>
        LET table == TableOf(args.bytes, Lowest(SignatureAt(args.bytes)))
            m == ret.val - TableStart(args.bytes)
            K == MatchingEntries(args.bytes)
        IN  /\ m \in 0..120
            /\ PairAtOffset(table, m) = Query
            /\ \A j \in 0..(m - 1) : PairAtOffset(table, j) # Query
            /\ \A k \in K : m <= 8 * k
            /\ m % 8 = 0 => (K # {} /\ m = 8 * Lowest(K))

(* a match that straddles two entries, neither of which holds the pair *)
C12_Witness ==
    /\ Succeeded
    /\ (ret.val - TableStart(args.bytes)) % 8 # 0
    /\ MatchingEntries(args.bytes) = {}

====
